---- MODULE Spec2Model ----
(***************************************************************************)
(* Model of services/public-api/src/main.py: the in-memory stores          *)
(* mock_users / mock_documents, the two dependencies that form the         *)
(* authorization gate (get_current_user, validate_organization), the       *)
(* exception handler and the protected endpoints.                          *)
(*                                                                         *)
(* Header values that the code inspects character by character (the        *)
(* Authorization header) are sequences of one-character strings; values    *)
(* that are only compared for equality (organization ids, user ids, titles)*)
(* are plain strings.  Timestamps (datetime.now) are not modelled.         *)
(***************************************************************************)
EXTENDS Integers, Sequences, FiniteSets, TLC

\* ------------------------------------------------------------------ bounds
\* number of request slots (requests that can be in flight at once)
NumReqs == 2
\* cap on the number of documents created by create_document in one run
MaxCreated == 2

Reqs == 1..NumReqs
\* the slot used by the sequential specification Spec
SeqReqs == {1}

\* Python's None
None == "None"

\* --------------------------------------------------------- string helpers
\* str.startswith(prefix)
StartsWith(s, p) == Len(s) >= Len(p) /\ SubSeq(s, 1, Len(p)) = p

\* str.replace(old, new): every non-overlapping occurrence of old, scanning
\* left to right, is replaced by new (old is non-empty here)
RECURSIVE Replace(_, _, _)
Replace(s, old, new) ==
    IF s = <<>> THEN <<>>
    ELSE IF StartsWith(s, old)
         THEN new \o Replace(SubSeq(s, Len(old) + 1, Len(s)), old, new)
         ELSE <<Head(s)>> \o Replace(Tail(s), old, new)

\* the literal "Bearer " of get_current_user
BearerPrefix == <<"B","e","a","r","e","r"," ">>

\* token literals of user_mapping
Tok1 == <<"u","s","e","r","-","1","-","t","o","k","e","n">>
Tok2 == <<"u","s","e","r","-","2","-","t","o","k","e","n">>
Tok3 == <<"u","s","e","r","-","3","-","t","o","k","e","n">>

\* user_mapping of get_current_user
user_mapping ==
    [t \in {Tok1, Tok2, Tok3} |->
        IF t = Tok1 THEN "user-1" ELSE IF t = Tok2 THEN "user-2" ELSE "user-3"]

\* dict.get(key) with default None
MappingGet(m, k) == IF k \in DOMAIN m THEN m[k] ELSE None

\* ----------------------------------------------------------------- inputs
\* a header is either absent or present with a value
AbsentAuth == [present |-> FALSE, value |-> <<>>]
Auth(v) == [present |-> TRUE, value |-> v]
AbsentOrg == [present |-> FALSE, value |-> ""]
Org(v) == [present |-> TRUE, value |-> v]

InvalidToken == <<"i","n","v","a","l","i","d","-","t","o","k","e","n">>
InvalidFormat == <<"I","n","v","a","l","i","d","F","o","r","m","a","t"," ">>
LowerBearer == <<"b","e","a","r","e","r"," ">>

\* Authorization header values offered to the service
AuthHeaders ==
    { AbsentAuth,
      Auth(<<>>),
      Auth(BearerPrefix \o Tok1),
      Auth(BearerPrefix \o Tok2),
      Auth(BearerPrefix \o Tok3),
      Auth(BearerPrefix \o InvalidToken),
      Auth(InvalidFormat \o Tok1),
      Auth(LowerBearer \o Tok1),
      Auth(Tok1),
      Auth(BearerPrefix \o BearerPrefix \o Tok1),
      Auth(BearerPrefix \o SubSeq(Tok2, 1, 7) \o BearerPrefix \o SubSeq(Tok2, 8, 12)) }

\* X-Organization-ID header values offered to the service
OrgHeaders == { AbsentOrg, Org(""), Org("org-1"), Org("org-2"), Org("org-3") }

Titles == {"T1", "T2"}
ReportIds == {"test-report-123"}

Endpoints == {"get_documents", "create_document", "get_dashboard",
              "generate_report", "get_report"}

\* identifiers produced by uuid.uuid4(): the k-th call yields a fresh one
UuidNames == <<"doc-uuid-1", "doc-uuid-2", "doc-uuid-3", "doc-uuid-4",
               "doc-uuid-5", "doc-uuid-6", "doc-uuid-7", "doc-uuid-8">>

\* ------------------------------------------------------------------ state
VARIABLES
    mock_users,      \* user id -> user record
    mock_documents,  \* organization id -> sequence of Document
    uuid_counter,    \* number of uuid4() identifiers handed out
    req,             \* request slot -> the request being processed in it
    util,            \* the call of a pure function of api/utils.py being evaluated
    hashes,          \* the results of the hash_password calls made so far
    verify           \* the last verify_password call and its outcome

\* the state of the functions of api/utils.py
utilvars == <<util, hashes, verify>>

vars == <<mock_users, mock_documents, uuid_counter, req, util, hashes, verify>>

Document(id, title, organization_id) ==
    [id |-> id, title |-> title, organization_id |-> organization_id]

NoUser == [id |-> None, organization_id |-> None, role |-> None]

NoResponse ==
    [status_code |-> 0, error |-> None, message |-> None,
     organization_id |-> None, documents |-> <<>>, team_members |-> <<>>,
     id |-> None, status |-> None, total_documents |-> 0]

IdleReq ==
    [pc |-> "idle", endpoint |-> None, authorization |-> AbsentAuth,
     x_organization_id |-> AbsentOrg, title |-> None, report_id |-> None,
     current_user |-> NoUser, organization_id |-> None,
     lookup_done |-> FALSE, trace |-> <<>>, response |-> NoResponse]

InitUsers ==
    [u \in {"user-1", "user-2"} |->
        IF u = "user-1"
        THEN [id |-> "user-1", organization_id |-> "org-1", role |-> "admin"]
        ELSE [id |-> "user-2", organization_id |-> "org-2", role |-> "user"]]

InitDocuments ==
    [o \in {"org-1", "org-2"} |->
        IF o = "org-1"
        THEN << Document("doc-1", "Organization 1 Document 1", "org-1"),
                Document("doc-2", "Organization 1 Document 2", "org-1") >>
        ELSE << Document("doc-3", "Organization 2 Document 1", "org-2") >>]

\* no function of api/utils.py has been called
IdleUtil == [op |-> "idle"]
NoVerify == [called |-> FALSE]

\* the stores and request slots of main.py after import
InitMain ==
    /\ mock_users = InitUsers
    /\ mock_documents = InitDocuments
    /\ uuid_counter = 0
    /\ req = [r \in Reqs |-> IdleReq]

Init ==
    /\ InitMain
    /\ util = IdleUtil
    /\ hashes = <<>>
    /\ verify = NoVerify

\* ------------------------------------------------------- pure operations
\* documents[:n]
Take(s, n) == SubSeq(s, 1, IF Len(s) < n THEN Len(s) ELSE n)

\* variant: the lookup key is hard-coded instead of the caller's organization
DocumentsGet_FixedKey(docs, organization_id) ==
    IF "org-1" \in DOMAIN docs THEN docs["org-1"] ELSE <<>>

\* mock_documents.get(organization_id, [])
DocumentsGet(docs, organization_id) ==
    IF organization_id \in DOMAIN docs THEN docs[organization_id] ELSE <<>>

\* raise HTTPException(status_code=..., detail=...)
HTTPException(status_code, detail) ==
    [kind |-> "HTTPException", status_code |-> status_code, detail |-> detail]

\* variant: the category follows the status, 401 being "Unauthorized"
http_exception_handler_ByStatus(exc) ==
    [NoResponse EXCEPT
        !.status_code = exc.status_code,
        !.error = IF exc.status_code = 403 THEN "Forbidden"
                  ELSE IF exc.status_code = 401 THEN "Unauthorized"
                  ELSE "Bad Request",
        !.message = exc.detail]

\* http_exception_handler: the JSON body rendered for an HTTPException
http_exception_handler(exc) ==
    [NoResponse EXCEPT
        !.status_code = exc.status_code,
        !.error = IF exc.status_code = 403 THEN "Forbidden" ELSE "Bad Request",
        !.message = exc.detail]

\* variant: the header is optional and its absence is raised as a 401
ValidationErrorResponse_As401 ==
    [NoResponse EXCEPT !.status_code = 401, !.error = "Bad Request",
                       !.message = "Invalid authorization header"]

\* a required Header(...) parameter that is absent: the framework answers
\* 422 (request validation) without calling the dependency
ValidationErrorResponse == [NoResponse EXCEPT !.status_code = 422]

\* an exception that is not an HTTPException (KeyError) is not rendered by
\* http_exception_handler: the server answers 500
ServerErrorResponse == [NoResponse EXCEPT !.status_code = 500]

\* variant: the prefix is matched without regard to letter case
HasBearerPrefix_AnyCase(authorization) ==
    StartsWith(authorization, BearerPrefix) \/ StartsWith(authorization, LowerBearer)

\* `authorization.startswith("Bearer ")`
HasBearerPrefix(authorization) == StartsWith(authorization, BearerPrefix)

\* `token = authorization.replace("Bearer ", "")`
ExtractToken(authorization) == Replace(authorization, BearerPrefix, <<>>)

\* `user_id = user_mapping.get(token)`
LookupUserId(token) == MappingGet(user_mapping, token)

\* variant: `if x_organization_id is None`
OrgHeaderMissing_NoneOnly(x_organization_id) == ~x_organization_id.present

\* `if not x_organization_id` on the value of request.headers.get(...):
\* true for None (absent header) and for the empty string
OrgHeaderMissing(x_organization_id) ==
    ~x_organization_id.present \/ x_organization_id.value = ""

\* variant: the membership comparison is left out
OrgMismatch_Unchecked(current_user, x_organization_id) == FALSE

\* variant: the header is compared with the wrong field of the user
OrgMismatch_WrongField(current_user, x_organization_id) ==
    current_user.id # x_organization_id.value

\* `current_user["organization_id"] != x_organization_id`
OrgMismatch(current_user, x_organization_id) ==
    current_user.organization_id # x_organization_id.value

\* the terminal step of a request that raised
Respond(r, response) ==
    req' = [req EXCEPT ![r].pc = "Responded", ![r].response = response]

\* ---------------------------------------------------------------- actions
\* a client sends a request; the slot of an answered request is reused
Request(r, endpoint, authorization, x_organization_id, title, report_id) ==
    /\ req[r].pc \in {"idle", "Responded"}
    /\ req' = [req EXCEPT ![r] =
                [IdleReq EXCEPT
                    !.pc = "Start",
                    !.endpoint = endpoint,
                    !.authorization = authorization,
                    !.x_organization_id = x_organization_id,
                    !.title = title,
                    !.report_id = report_id]]
    /\ UNCHANGED <<mock_users, mock_documents, uuid_counter, utilvars>>

\* dependency get_current_user (resolved once per request)
get_current_user(r) ==
    /\ req[r].pc = "Start"
    /\ LET authorization == req[r].authorization
           token == ExtractToken(authorization.value)
           user_id == LookupUserId(token)
           ran == [req EXCEPT ![r].trace = Append(@, "get_current_user")]
       IN  IF ~authorization.present
           THEN Respond(r, ValidationErrorResponse)
           ELSE IF ~HasBearerPrefix(authorization.value)
           THEN req' = [ran EXCEPT
                    ![r].pc = "Responded",
                    ![r].response = http_exception_handler(
                        HTTPException(401, "Invalid authorization header"))]
           ELSE IF user_id = None
           THEN req' = [ran EXCEPT
                    ![r].pc = "Responded",
                    ![r].lookup_done = TRUE,
                    ![r].response = http_exception_handler(
                        HTTPException(401, "Invalid token"))]
           ELSE IF user_id \notin DOMAIN mock_users
           THEN req' = [ran EXCEPT
                    ![r].pc = "Responded",
                    ![r].lookup_done = TRUE,
                    ![r].response = ServerErrorResponse]
           ELSE req' = [ran EXCEPT
                    ![r].pc = "Resolved",
                    ![r].lookup_done = TRUE,
                    ![r].current_user = mock_users[user_id]]
    /\ UNCHANGED <<mock_users, mock_documents, uuid_counter, utilvars>>

\* variant: a user asserting another organization is moved into it
validate_organization_AutoJoin(r) ==
    /\ req[r].pc = "Resolved"
    /\ LET x_organization_id == req[r].x_organization_id
           current_user == req[r].current_user
           ran == [req EXCEPT ![r].trace = Append(@, "validate_organization")]
       IN  IF ~x_organization_id.present \/ x_organization_id.value = ""
           THEN /\ req' = [ran EXCEPT
                        ![r].pc = "Responded",
                        ![r].response = http_exception_handler(
                            HTTPException(400, "X-Organization-ID header is required"))]
                /\ UNCHANGED mock_users
           ELSE /\ req' = [ran EXCEPT
                        ![r].pc = "Authorized",
                        ![r].current_user.organization_id = x_organization_id.value,
                        ![r].organization_id = x_organization_id.value]
                /\ mock_users' = [mock_users EXCEPT
                        ![current_user.id].organization_id = x_organization_id.value]
    /\ UNCHANGED <<mock_documents, uuid_counter, utilvars>>

\* dependency validate_organization
validate_organization(r) ==
    /\ req[r].pc = "Resolved"
    /\ LET x_organization_id == req[r].x_organization_id
           current_user == req[r].current_user
           ran == [req EXCEPT ![r].trace = Append(@, "validate_organization")]
       IN  IF OrgHeaderMissing(x_organization_id)
           THEN req' = [ran EXCEPT
                    ![r].pc = "Responded",
                    ![r].response = http_exception_handler(
                        HTTPException(400, "X-Organization-ID header is required"))]
           ELSE IF OrgMismatch(current_user, x_organization_id)
           THEN req' = [ran EXCEPT
                    ![r].pc = "Responded",
                    ![r].response = http_exception_handler(
                        HTTPException(403,
                            "User is not a member of the specified organization"))]
           ELSE req' = [ran EXCEPT
                    ![r].pc = "Authorized",
                    ![r].organization_id = x_organization_id.value]
    /\ UNCHANGED <<mock_users, mock_documents, uuid_counter, utilvars>>

\* the endpoint body of request r runs
Handler(r, endpoint) ==
    /\ req[r].pc = "Authorized"
    /\ req[r].endpoint = endpoint

Answered(r, response) ==
    req' = [req EXCEPT ![r].pc = "Responded",
                       ![r].trace = Append(@, req[r].endpoint),
                       ![r].response = response]

\* GET /api/v1/documents
get_documents(r) ==
    /\ Handler(r, "get_documents")
    /\ Answered(r, [NoResponse EXCEPT
            !.status_code = 200,
            !.documents = DocumentsGet(mock_documents, req[r].organization_id)])
    /\ UNCHANGED <<mock_users, mock_documents, uuid_counter, utilvars>>

\* variant: the list of the organization is assigned, not appended to
create_document_Overwrite(r) ==
    /\ Handler(r, "create_document")
    /\ uuid_counter < Len(UuidNames)
    /\ LET organization_id == req[r].organization_id
           new_document == Document(UuidNames[uuid_counter + 1], req[r].title,
                                    organization_id)
       IN  /\ mock_documents' =
                [o \in DOMAIN mock_documents \cup {organization_id} |->
                    IF o = organization_id THEN <<new_document>>
                    ELSE mock_documents[o]]
           /\ Answered(r, [NoResponse EXCEPT
                    !.status_code = 200,
                    !.documents = <<new_document>>])
    /\ uuid_counter' = uuid_counter + 1
    /\ UNCHANGED <<mock_users, utilvars>>

\* POST /api/v1/documents
create_document(r) ==
    /\ Handler(r, "create_document")
    /\ uuid_counter < Len(UuidNames)
    /\ LET organization_id == req[r].organization_id
           new_document == Document(UuidNames[uuid_counter + 1], req[r].title,
                                    organization_id)
           documents == DocumentsGet(mock_documents, organization_id)
       IN  /\ mock_documents' =
                [o \in DOMAIN mock_documents \cup {organization_id} |->
                    IF o = organization_id THEN Append(documents, new_document)
                    ELSE mock_documents[o]]
           /\ Answered(r, [NoResponse EXCEPT
                    !.status_code = 200,
                    !.documents = <<new_document>>])
    /\ uuid_counter' = uuid_counter + 1
    /\ UNCHANGED <<mock_users, utilvars>>

\* GET /api/v1/dashboard
get_dashboard(r) ==
    /\ Handler(r, "get_dashboard")
    /\ LET organization_id == req[r].organization_id
           documents == DocumentsGet(mock_documents, organization_id)
           team_members ==
               IF organization_id = "org-1"
               THEN << [id |-> "user-1", name |-> "User 1",
                        organization_id |-> organization_id] >>
               ELSE << [id |-> "user-2", name |-> "User 2",
                        organization_id |-> organization_id] >>
       IN  Answered(r, [NoResponse EXCEPT
                !.status_code = 200,
                !.organization_id = organization_id,
                !.documents = Take(documents, 5),
                !.team_members = team_members])
    /\ UNCHANGED <<mock_users, mock_documents, uuid_counter, utilvars>>

\* POST /api/v1/reports/generate (the report id is an opaque fresh value)
generate_report(r) ==
    /\ Handler(r, "generate_report")
    /\ Answered(r, [NoResponse EXCEPT
            !.status_code = 202,
            !.id = "report-uuid",
            !.status = "processing"])
    /\ UNCHANGED <<mock_users, mock_documents, uuid_counter, utilvars>>

\* GET /api/v1/reports/{report_id}
get_report(r) ==
    /\ Handler(r, "get_report")
    /\ LET organization_id == req[r].organization_id
       IN  Answered(r, [NoResponse EXCEPT
                !.status_code = 200,
                !.id = req[r].report_id,
                !.organization_id = organization_id,
                !.status = "completed",
                !.total_documents =
                    Len(DocumentsGet(mock_documents, organization_id))])
    /\ UNCHANGED <<mock_users, mock_documents, uuid_counter, utilvars>>

\* -------------------------------------------------------- specifications
\* create_document requests accepted but not yet answered
InFlightCreates ==
    Cardinality({q \in Reqs : /\ req[q].pc \in {"Start", "Resolved", "Authorized"}
                              /\ req[q].endpoint = "create_document"})

\* the inputs of one request (at most MaxCreated documents are created)
SendRequest(r) ==
    \E endpoint \in Endpoints, authorization \in AuthHeaders,
       x_organization_id \in OrgHeaders :
        \E title \in (IF endpoint = "create_document" THEN Titles ELSE {None}),
           report_id \in (IF endpoint = "get_report" THEN ReportIds ELSE {None}) :
            /\ endpoint = "create_document" =>
                    uuid_counter + InFlightCreates < MaxCreated
            /\ Request(r, endpoint, authorization, x_organization_id, title, report_id)

\* requests served one after the other
Next ==
    \E r \in SeqReqs :
        \/ SendRequest(r)
        \/ get_current_user(r)
        \/ validate_organization(r)
        \/ get_documents(r)
        \/ create_document(r)
        \/ get_dashboard(r)
        \/ generate_report(r)
        \/ get_report(r)

Spec == Init /\ [][Next]_vars

\* documents created in one run of document creation followed by dashboards
MaxDashCreated == 4

\* members creating documents in their organization and reading dashboards
SendDashRequest(r) ==
    \E endpoint \in {"create_document", "get_dashboard"},
       authorization \in {Auth(BearerPrefix \o Tok1), Auth(BearerPrefix \o Tok2)},
       x_organization_id \in {Org("org-1"), Org("org-2")} :
        \E title \in (IF endpoint = "create_document" THEN Titles ELSE {None}) :
            /\ endpoint = "create_document" =>
                    uuid_counter + InFlightCreates < MaxDashCreated
            /\ Request(r, endpoint, authorization, x_organization_id, title, None)

NextDash ==
    \E r \in SeqReqs :
        \/ SendDashRequest(r)
        \/ get_current_user(r)
        \/ validate_organization(r)
        \/ create_document(r)
        \/ get_dashboard(r)

SpecDash == Init /\ [][NextDash]_vars

\* the slots of requests served concurrently
ConcReqs == {1, 2}

\* documents created in one run of concurrent creation
MaxConcCreated == 2

\* a create_document request, authorized or not
SendCreateRequest(r) ==
    \E authorization \in {Auth(BearerPrefix \o Tok1), Auth(BearerPrefix \o Tok2),
                           Auth(BearerPrefix \o InvalidToken)},
       x_organization_id \in {Org("org-1"), Org("org-2")},
       title \in Titles :
        /\ uuid_counter + InFlightCreates < MaxConcCreated
        /\ Request(r, "create_document", authorization, x_organization_id, title, None)

\* requests served concurrently: the event loop runs one step (a dependency
\* or an endpoint body, none of which awaits) of one request at a time
NextConc ==
    \E r \in ConcReqs :
        \/ SendCreateRequest(r)
        \/ get_current_user(r)
        \/ validate_organization(r)
        \/ create_document(r)

SpecConc == Init /\ [][NextConc]_vars

\* ------------------------------------------------------- claim vocabulary
\* class Role(str, Enum) of schemas.py
Role == {"owner", "admin", "member", "billing"}

\* the steps of request r that have run so far
Ran(r, step) == \E i \in DOMAIN req[r].trace : req[r].trace[i] = step

\* the endpoint body of request r has run
HandlerRan(r) == \E i \in DOMAIN req[r].trace : req[r].trace[i] \in Endpoints

\* request r has reached the Authorized state of the gate
ReachedAuthorized(r) == req[r].pc = "Authorized" \/ HandlerRan(r)

\* identity resolution of request r succeeded: it holds a user of the store
Resolved(r) == \E u \in DOMAIN mock_users : req[r].current_user = mock_users[u]

\* the gate has produced its terminal outcome for request r
GateDone(r) == req[r].pc \in {"Authorized", "Responded"}

\* C1: a handler body runs only if the bearer value resolved to a user and
\* that user's organization_id equals the X-Organization-ID header; the
\* organization_id handed to the handler is the user's organization_id.
C1_HandlerOnlyWhenAuthorized ==
    \A r \in Reqs :
        (ReachedAuthorized(r) \/ req[r].response.status_code \in {200, 202}) =>
            /\ Resolved(r)
            /\ req[r].authorization.present
            /\ req[r].x_organization_id.present
            /\ req[r].x_organization_id.value = req[r].current_user.organization_id
            /\ req[r].organization_id = req[r].current_user.organization_id
            /\ req[r].trace[1] = "get_current_user"
            /\ req[r].trace[2] = "validate_organization"

C1_Witness ==
    \E r \in Reqs : /\ HandlerRan(r)
                    /\ req[r].response.status_code = 200
                    /\ req[r].organization_id = "org-2"

\* C2: every document of a 200 response (list, created document, dashboard
\* recent_documents) and every dashboard/report organization_id carries the
\* organization_id of the user resolved from the request's bearer token.
C2_TenantIsolation ==
    \A r \in Reqs :
        req[r].response.status_code = 200 =>
            LET org == req[r].current_user.organization_id
                resp == req[r].response
            IN  /\ Resolved(r)
                /\ \A i \in DOMAIN resp.documents :
                        resp.documents[i].organization_id = org
                /\ \A i \in DOMAIN resp.team_members :
                        resp.team_members[i].organization_id = org
                /\ req[r].endpoint \in {"get_dashboard", "get_report"} =>
                        resp.organization_id = org

C2_Witness ==
    \E r \in Reqs :
        /\ req[r].endpoint = "get_dashboard"
        /\ req[r].response.status_code = 200
        /\ Len(req[r].response.documents) = 2
        /\ req[r].current_user.organization_id = "org-2"
        /\ Len(mock_documents["org-1"]) = 3

\* C3: for a resolved principal and a non-empty asserted tenant id, the gate
\* fails with 403 'User is not a member of the specified organization' and
\* no handler runs when the id differs from the principal's organization_id,
\* and succeeds with tenant_id equal to the asserted id when it is equal.
C3_TenantMismatch ==
    \A r \in Reqs :
        (/\ GateDone(r)
         /\ Resolved(r)
         /\ req[r].x_organization_id.present
         /\ req[r].x_organization_id.value # "") =>
            IF req[r].x_organization_id.value # req[r].current_user.organization_id
            THEN /\ req[r].pc = "Responded"
                 /\ req[r].response.status_code = 403
                 /\ req[r].response.message =
                        "User is not a member of the specified organization"
                 /\ ~HandlerRan(r)
            ELSE /\ ReachedAuthorized(r)
                 /\ req[r].organization_id = req[r].x_organization_id.value
                 /\ req[r].response.status_code \in {0, 200, 202}

C3_Witness ==
    \E r \in Reqs : /\ req[r].response.status_code = 403
                    /\ req[r].current_user.organization_id = "org-1"
                    /\ req[r].x_organization_id.value = "org-2"

\* C4: for a resolved principal, an absent or empty X-Organization-ID header
\* makes the gate fail with 400 'X-Organization-ID header is required',
\* never with 403 and never with success.
C4_MissingTenant ==
    \A r \in Reqs :
        (/\ GateDone(r)
         /\ Resolved(r)
         /\ (~req[r].x_organization_id.present \/ req[r].x_organization_id.value = "")) =>
            /\ req[r].pc = "Responded"
            /\ req[r].response.status_code = 400
            /\ req[r].response.message = "X-Organization-ID header is required"
            /\ ~HandlerRan(r)

C4_Witness ==
    \E r \in Reqs : /\ req[r].response.status_code = 400
                    /\ req[r].x_organization_id.present
                    /\ req[r].x_organization_id.value = ""
                    /\ req[r].current_user.organization_id = "org-2"

\* C5: every header 'Bearer <v>' whose value does not resolve to a user of
\* the user store - also when the token mapping recognizes <v> but the store
\* has no entry for its user id - ends in 401, no other status.
C5_UnresolvedIs401 ==
    \A r \in Reqs :
        (/\ req[r].pc = "Responded"
         /\ req[r].authorization.present
         /\ StartsWith(req[r].authorization.value, BearerPrefix)
         /\ ~Resolved(r)) =>
            req[r].response.status_code = 401

\* C6: a request without Authorization header ends in 401 with a body of
\* shape {error, message}.
C6_AbsentHeaderIs401 ==
    \A r \in Reqs :
        (req[r].pc = "Responded" /\ ~req[r].authorization.present) =>
            /\ req[r].response.status_code = 401
            /\ req[r].response.error # None
            /\ req[r].response.message # None

\* C6 (amended): a request without Authorization header is rejected by the
\* required-header validation before get_current_user runs: it ends in 422,
\* not rendered as {error, message}, and neither gate step nor handler runs.
C6_AbsentHeaderIs422 ==
    \A r \in Reqs :
        (GateDone(r) /\ ~req[r].authorization.present) =>
            /\ req[r].pc = "Responded"
            /\ req[r].response.status_code = 422
            /\ req[r].response.error = None
            /\ req[r].response.message = None
            /\ req[r].trace = <<>>

C6_Witness ==
    \E r \in Reqs : /\ req[r].pc = "Responded"
                    /\ ~req[r].authorization.present
                    /\ req[r].x_organization_id.value = "org-1"

\* C7: every present Authorization header that does not start with exactly
\* 'Bearer ' ends in 401 'Invalid authorization header' before any token
\* lookup, whatever the rest of the value and the X-Organization-ID header.
C7_BadPrefixIs401 ==
    \A r \in Reqs :
        (/\ GateDone(r)
         /\ req[r].authorization.present
         /\ ~StartsWith(req[r].authorization.value, BearerPrefix)) =>
            /\ req[r].pc = "Responded"
            /\ req[r].response.status_code = 401
            /\ req[r].response.message = "Invalid authorization header"
            /\ ~req[r].lookup_done
            /\ req[r].trace = <<"get_current_user">>

C7_Witness ==
    \E r \in Reqs : /\ req[r].pc = "Responded"
                    /\ req[r].authorization = Auth(LowerBearer \o Tok1)
                    /\ req[r].x_organization_id = Org("org-1")

\* C8: the gate steps run in the order get_current_user, validate_organization,
\* handler, none of them twice; the tenant check runs only after identity
\* resolution succeeded, so a request whose credential is malformed or unknown
\* ends in 401 (never 400 or 403) whatever the X-Organization-ID header is.
C8_OrderAnd401 ==
    \A r \in Reqs :
        /\ \E n \in 0..3 :
              req[r].trace =
                SubSeq(<<"get_current_user", "validate_organization", req[r].endpoint>>, 1, n)
        /\ Ran(r, "validate_organization") => Resolved(r)
        /\ (/\ req[r].pc = "Responded"
            /\ req[r].authorization.present
            /\ ~Resolved(r)) =>
                req[r].response.status_code = 401

\* the outcome of the gate for a pair of header values against a user store:
\* 0 for Authorized, else the status of the failure
GateOutcome(authorization, x_organization_id, users) ==
    IF ~authorization.present THEN 422
    ELSE IF ~StartsWith(authorization.value, BearerPrefix) THEN 401
    ELSE LET user_id == MappingGet(user_mapping,
                            Replace(authorization.value, BearerPrefix, <<>>))
         IN  IF user_id = None THEN 401
             ELSE IF user_id \notin DOMAIN users THEN 500
             ELSE IF ~x_organization_id.present \/ x_organization_id.value = ""
                  THEN 400
             ELSE IF users[user_id].organization_id # x_organization_id.value
                  THEN 403
             ELSE 0

\* the outcome the gate produced for request r
ObservedOutcome(r) ==
    IF ReachedAuthorized(r) THEN 0 ELSE req[r].response.status_code

\* request r takes a gate step (get_current_user or validate_organization)
GateStep(r) == req[r].pc \in {"Start", "Resolved"} /\ req'[r] # req[r]

\* C9: a gate step, whatever its outcome, leaves mock_users and
\* mock_documents unchanged; the outcome for a pair of header values is the
\* one obtained against the initial stores, whatever requests were processed
\* before; no step ever reassigns a user's organization_id.
C9_GateFrame ==
    /\ [][\A r \in Reqs : GateStep(r) =>
                (mock_users' = mock_users /\ mock_documents' = mock_documents)]_vars
    /\ [][\A u \in DOMAIN mock_users :
                /\ u \in DOMAIN mock_users'
                /\ mock_users'[u].organization_id = mock_users[u].organization_id]_vars
    /\ [](\A r \in Reqs : GateDone(r) =>
                ObservedOutcome(r) =
                    GateOutcome(req[r].authorization, req[r].x_organization_id,
                                InitUsers))

C9_Witness ==
    \E r \in Reqs : /\ req[r].response.status_code = 403
                    /\ uuid_counter = MaxCreated
                    /\ Len(mock_documents["org-2"]) > 1

\* C10: every principal the gate resolves has one of the four roles owner,
\* admin, member, billing.
C10_RoleClosed ==
    \A r \in Reqs :
        req[r].current_user # NoUser => req[r].current_user.role \in Role

\* =========================================================================
\* api/utils.py
\* =========================================================================
\* A structured (JSON-like) value is a record [t, v]: a tag and a payload.
\* Strings are sequences of one-character strings, a mapping is a function
\* from keys (strings) to values.
Str(s) == [t |-> "str", v |-> s]
Num(n) == [t |-> "int", v |-> n]
Null == [t |-> "null", v |-> <<>>]
List(xs) == [t |-> "list", v |-> xs]
Dict(f) == [t |-> "dict", v |-> f]

\* the mapping without entries
EmptyDict == [k \in {} |-> Null]

\* `k in key` for strings: k occurs in key as a contiguous substring
Contains(key, k) ==
    \E i \in 0..(Len(key) - Len(k)) : SubSeq(key, i + 1, i + Len(k)) = k

\* default_sensitive_keys of mask_sensitive_data
default_sensitive_keys ==
    { <<"p","a","s","s","w","o","r","d">>,
      <<"t","o","k","e","n">>,
      <<"s","e","c","r","e","t">>,
      <<"k","e","y">>,
      <<"a","u","t","h">>,
      <<"c","r","e","d","e","n","t","i","a","l">>,
      <<"j","w","t">>,
      <<"s","e","s","s","i","o","n">>,
      <<"c","o","o","k","i","e">> }

\* the literal "**********" and the literal "***"
Stars10 == <<"*","*","*","*","*","*","*","*","*","*">>
Stars3 == <<"*","*","*">>

\* variant: both sides are lower-cased before the containment test
\* (the keys of the model differ from their lower-case form in these letters)
Lower(s) ==
    [i \in 1..Len(s) |->
        CASE s[i] = "P" -> "p" [] s[i] = "A" -> "a" [] s[i] = "I" -> "i"
          [] s[i] = "K" -> "k" [] s[i] = "E" -> "e" [] s[i] = "Y" -> "y"
          [] OTHER -> s[i]]

KeyIsSensitive_AnyCase(key, keys_to_mask) ==
    \E k \in keys_to_mask : Contains(Lower(key), Lower(k))

\* `any(k in key for k in keys_to_mask)`
KeyIsSensitive(key, keys_to_mask) ==
    \E k \in keys_to_mask : Contains(key, k)

\* variant: the threshold for partial masking is `>= 4`
MaskValue_Threshold(value) ==
    IF value.t = "str" /\ Len(value.v) >= 4
    THEN Str(SubSeq(value.v, 1, 2) \o Stars10
             \o SubSeq(value.v, Len(value.v) - 1, Len(value.v)))
    ELSE Str(Stars3)

\* variant: values masked completely are replaced by a five-star literal
MaskValue_LongLiteral(value) ==
    IF value.t = "str" /\ Len(value.v) > 4
    THEN Str(SubSeq(value.v, 1, 2) \o Stars10
             \o SubSeq(value.v, Len(value.v) - 1, Len(value.v)))
    ELSE Str(<<"*","*","*","*","*">>)

\* variant: a string too short to be abbreviated is left as it is
MaskValue_ShortKept(value) ==
    IF value.t = "str"
    THEN IF Len(value.v) > 4
         THEN Str(SubSeq(value.v, 1, 2) \o Stars10
                  \o SubSeq(value.v, Len(value.v) - 1, Len(value.v)))
         ELSE value
    ELSE Str(Stars3)

\* the replacement of the value of a sensitive key
MaskValue(value) ==
    IF value.t = "str"
    THEN IF Len(value.v) > 4
         THEN Str(SubSeq(value.v, 1, 2) \o Stars10
                  \o SubSeq(value.v, Len(value.v) - 1, Len(value.v)))
         ELSE Str(Stars3)
    ELSE Str(Stars3)

\* variant: the recursive call drops the caller's markers
RecursiveKeys_Dropped(sensitive_keys) == {}

\* the sensitive_keys argument of the recursive call
RecursiveKeys(sensitive_keys) == sensitive_keys

\* variant: non-matched lists are walked element by element as well
RECURSIVE mask_sensitive_data(_, _)
RECURSIVE PassThrough_WalkLists(_, _)
PassThrough_WalkLists(value, sensitive_keys) ==
    IF value.t = "list"
    THEN List([i \in 1..Len(value.v) |->
                IF value.v[i].t = "dict"
                THEN Dict(mask_sensitive_data(value.v[i].v, sensitive_keys))
                ELSE PassThrough_WalkLists(value.v[i], sensitive_keys)])
    ELSE value

\* the `else` branch: a non-matched value that is not a dict is kept
PassThrough(value, sensitive_keys) == value

\* mask_sensitive_data(data, sensitive_keys) on the entries of a dict
mask_sensitive_data(data, sensitive_keys) ==
    LET keys_to_mask == default_sensitive_keys \cup sensitive_keys
    IN  [key \in DOMAIN data |->
            IF KeyIsSensitive(key, keys_to_mask)
            THEN MaskValue(data[key])
            ELSE IF data[key].t = "dict"
            THEN Dict(mask_sensitive_data(data[key].v, RecursiveKeys(sensitive_keys)))
            ELSE PassThrough(data[key], sensitive_keys)]

\* ------------------------------------------- inputs of mask_sensitive_data
\* bound on the number of entries of an input mapping, nested ones included
MaxEntries == 2

\* keys of the input mappings
KeyPassword == <<"p","a","s","s","w","o","r","d">>
KeyApiKey == <<"a","p","i","_","k","e","y">>
KeyPasswordCap == <<"P","a","s","s","w","o","r","d">>
KeyApiKeyCap == <<"A","P","I","_","K","E","Y">>
KeyName == <<"n","a","m","e">>
KeySsn == <<"s","s","n">>
KeySeq == <<KeyPassword, KeyApiKey, KeyPasswordCap, KeyApiKeyCap, KeyName, KeySsn>>

\* values that are not walked: strings around the length threshold, a number,
\* null, and a list holding a mapping with a sensitive key
Leaves ==
    { Str(<<>>),
      Str(<<"a","b","c","d">>),
      Str(<<"a","b","c","d","e">>),
      Str(Stars3),
      Str(<<"a","b">> \o Stars10 \o <<"d","e">>),
      Num(12345),
      Null,
      List(<<Str(<<"x">>), Dict(KeyPassword :> Str(<<"h","u","n","t","e","r","2","2">>))>>) }

\* the sensitive_keys arguments offered (a tuple enters the union as a set)
ExtraMarkers == { {}, {KeySsn} }

\* the mappings with at most n entries in all, whose top-level keys are
\* KeySeq[i], KeySeq[i+1], ...
RECURSIVE DictBodies(_, _)
RECURSIVE ValuesWithin(_)
ValuesWithin(m) == Leaves \cup { Dict(b) : b \in DictBodies(m, 1) }

DictBodies(n, i) ==
    {EmptyDict} \cup
    UNION { { (KeySeq[jm[1]] :> val) @@ rest :
                val \in ValuesWithin(jm[2]),
                rest \in DictBodies(n - 1 - jm[2], jm[1] + 1) } :
            jm \in (i..Len(KeySeq)) \X (0..(n - 1)) }

MaskCalls ==
    { [op |-> "mask_sensitive_data", pc |-> "call", data |-> d,
       sensitive_keys |-> m, result |-> EmptyDict, again |-> EmptyDict] :
        d \in DictBodies(MaxEntries, 1), m \in ExtraMarkers }

\* ------------------------------------- hash_password / verify_password
\* pwd_context = CryptContext(schemes=["bcrypt"]): bcrypt reads at most the
\* first 72 bytes of a password (the passwords of the model are ASCII)
BcryptMaxBytes == 72
\* bcrypt identifier and default cost written into every hash
BcryptIdent == "2b"
BcryptRounds == 12

\* the part of a password bcrypt reads
Truncate(password) ==
    SubSeq(password, 1, IF Len(password) < BcryptMaxBytes THEN Len(password)
                        ELSE BcryptMaxBytes)

\* the bcrypt digest, idealised as collision-free: it determines the salt
\* and the bytes of the password that were read, and nothing else
Digest(salt, password) == <<salt, Truncate(password)>>

\* variant: the hash is built with one fixed salt
hash_password_FixedSalt(password, salt) ==
    [ident |-> BcryptIdent, rounds |-> BcryptRounds, salt |-> "saltA",
     digest |-> Digest("saltA", password), text |-> ""]

\* variant: the salt written into the hash is not the one that was used
hash_password_SaltNotStored(password, salt) ==
    [ident |-> BcryptIdent, rounds |-> BcryptRounds, salt |-> "saltA",
     digest |-> Digest(salt, password), text |-> ""]

\* hash_password(password), `salt` being the random salt drawn by the call:
\* the string "$2b$12$<salt><digest>", kept as its parsed fields
hash_password(password, salt) ==
    [ident |-> BcryptIdent, rounds |-> BcryptRounds, salt |-> salt,
     digest |-> Digest(salt, password), text |-> ""]

\* a stored string that is not a bcrypt hash: `text` is the string, no field
\* can be parsed from it
NotAHash(text) ==
    [ident |-> "none", rounds |-> 0, salt |-> "", digest |-> <<>>, text |-> text]

\* a bcrypt hash cut off after its salt
TruncatedHash(salt) ==
    [ident |-> BcryptIdent, rounds |-> BcryptRounds, salt |-> salt,
     digest |-> <<>>, text |-> ""]

\* pwd_context identifies the scheme of a stored string by its "$2b$" prefix
Identified(hashed) == hashed.ident = BcryptIdent

\* the stored string parses as a complete bcrypt hash
WellFormed(hashed) == Identified(hashed) /\ hashed.digest # <<>>

\* verify_password(password, hashed): "True", "False", or the exception that
\* pwd_context.verify raises and the function does not catch
verify_password(password, hashed) ==
    IF ~Identified(hashed) THEN "UnknownHashError"
    ELSE IF ~WellFormed(hashed) THEN "MalformedHashError"
    ELSE IF hashed.digest = Digest(hashed.salt, password) THEN "True"
    ELSE "False"

\* bound on the number of hash_password calls of one run
MaxHashes == 2

\* a password of 72 characters 'a', the longest bcrypt reads completely
Long72 == [i \in 1..BcryptMaxBytes |-> "a"]

\* the plaintexts offered
Passwords ==
    { <<"x">>, <<"p","w">>, <<"p","w","x">>, Long72,
      Long72 \o <<"x">>, Long72 \o <<"y">> }

\* the salts the random source can deliver
Salts == {"saltA", "saltB"}

\* stored values that are not well-formed hashes: the empty string,
\* arbitrary text, a hash cut short
MalformedHashes == { NotAHash(""), NotAHash("not-a-hash"), TruncatedHash("saltA") }

\* ------------------------------------------------ generate_secure_token
\* `alphabet = string.ascii_letters + string.digits`
TokenAlphabet ==
    <<"a", "b", "c", "d", "e", "f", "g", "h", "i", "j", "k", "l", "m",
      "n", "o", "p", "q", "r", "s", "t", "u", "v", "w", "x", "y", "z",
      "A", "B", "C", "D", "E", "F", "G", "H", "I", "J", "K", "L", "M",
      "N", "O", "P", "Q", "R", "S", "T", "U", "V", "W", "X", "Y", "Z",
      "0", "1", "2", "3", "4", "5", "6", "7", "8", "9">>

\* `length: int = 32`
DefaultLength == 32

\* largest length passed to generate_secure_token
MaxTokenLength == 256

\* secrets.choice(alphabet) on the i-th iteration: the random source is a
\* stream of indices into the alphabet, here the streams a*i + b
Choice(alphabet, stream, i) ==
    alphabet[((stream.a * i + stream.b) % Len(alphabet)) + 1]

Streams == { [a |-> x, b |-> y] : x \in {0, 1, 7}, y \in {0, 25, 61, 63} }

\* variant: the loop runs one time too many
generate_secure_token_OffByOne(length, stream) ==
    [i \in 1..(length + 1) |-> Choice(TokenAlphabet, stream, i)]

\* "".join(secrets.choice(alphabet) for _ in range(length))
generate_secure_token(length, stream) ==
    [i \in 1..length |-> Choice(TokenAlphabet, stream, i)]

TokenCalls ==
    { [op |-> "generate_secure_token", pc |-> "call", length_given |-> TRUE,
       length |-> n, stream |-> st, token |-> <<>>] :
        n \in 0..MaxTokenLength, st \in Streams }
    \cup
    { [op |-> "generate_secure_token", pc |-> "call", length_given |-> FALSE,
       length |-> DefaultLength, stream |-> st, token |-> <<>>] : st \in Streams }

\* ----------------------------------------------------------- create_slug
\* the character classes of the regular expressions of api/utils.py
LowerLetters ==
    { "a", "b", "c", "d", "e", "f", "g", "h", "i", "j", "k", "l", "m",
      "n", "o", "p", "q", "r", "s", "t", "u", "v", "w", "x", "y", "z" }

UpperLetters ==
    { "A", "B", "C", "D", "E", "F", "G", "H", "I", "J", "K", "L", "M",
      "N", "O", "P", "Q", "R", "S", "T", "U", "V", "W", "X", "Y", "Z" }

Digits == { "0", "1", "2", "3", "4", "5", "6", "7", "8", "9" }

\* longest text passed to create_slug and sanitize_filename
MaxTextLen == 4

\* the sequences over `chars` of length at most n
RECURSIVE TextsUpTo(_, _)
TextsUpTo(chars, n) ==
    IF n = 0 THEN { <<>> }
    ELSE LET shorter == TextsUpTo(chars, n - 1)
         IN  shorter \cup { Append(t, c) : t \in { u \in shorter : Len(u) = n - 1 },
                                           c \in chars }

\* str.lower() on the characters of the model
ToLower(c) ==
    CASE c = "A" -> "a"
      [] c = "B" -> "b"
      [] OTHER -> c

\* name.lower()
LowerText(name) == [i \in 1..Len(name) |-> ToLower(name[i])]

\* re.sub(r"[^<keep>]+", repl, s): every maximal run of characters outside
\* `keep` is replaced by repl
RECURSIVE ReSubRuns(_, _, _)
ReSubRuns(s, keep, repl) ==
    IF s = <<>> THEN <<>>
    ELSE IF Head(s) \in keep THEN <<Head(s)>> \o ReSubRuns(Tail(s), keep, repl)
    ELSE IF Len(s) > 1 /\ s[2] \notin keep THEN ReSubRuns(Tail(s), keep, repl)
    ELSE repl \o ReSubRuns(Tail(s), keep, repl)

\* str.strip(c)
RECURSIVE Strip(_, _)
Strip(s, c) ==
    IF s = <<>> THEN <<>>
    ELSE IF Head(s) = c THEN Strip(Tail(s), c)
    ELSE IF s[Len(s)] = c THEN Strip(SubSeq(s, 1, Len(s) - 1), c)
    ELSE s

\* variant: each character outside [a-z0-9] becomes a hyphen of its own
create_slug_NoCollapse(name) ==
    Strip([i \in 1..Len(name) |->
              IF ToLower(name[i]) \in LowerLetters \cup Digits
              THEN ToLower(name[i]) ELSE "-"], "-")

\* create_slug(name)
create_slug(name) ==
    LET slug == ReSubRuns(LowerText(name), LowerLetters \cup Digits, <<"-">>)
    IN  Strip(slug, "-")

\* the names offered to create_slug
SlugChars == {"a", "B", "1", "-", " "}

SlugCalls ==
    { [op |-> "create_slug", pc |-> "call", name |-> t,
       result |-> <<>>, again |-> <<>>] : t \in TextsUpTo(SlugChars, MaxTextLen) }

\* ----------------------------------------------------- sanitize_filename
\* re.sub(r"[^<keep>]", "", s): every character outside `keep` is dropped
RECURSIVE ReSubDrop(_, _)
ReSubDrop(s, keep) ==
    IF s = <<>> THEN <<>>
    ELSE IF Head(s) \in keep THEN <<Head(s)>> \o ReSubDrop(Tail(s), keep)
    ELSE ReSubDrop(Tail(s), keep)

\* [a-zA-Z0-9._-]
FilenameChars == LowerLetters \cup UpperLetters \cup Digits \cup {".", "_", "-"}

\* the fallback literal
FileLiteral == <<"f","i","l","e">>

\* variant: the separators are removed before the ".." sequences
sanitize_filename_SeparatorsFirst(filename) ==
    LET no_slash == Replace(filename, <<"/">>, <<>>)
        no_backslash == Replace(no_slash, <<"\\">>, <<>>)
        no_dots == Replace(no_backslash, <<".", ".">>, <<>>)
        sanitized == ReSubDrop(no_dots, FilenameChars)
    IN  IF sanitized = <<>> THEN FileLiteral ELSE sanitized

\* sanitize_filename(filename)
sanitize_filename(filename) ==
    LET no_dots == Replace(filename, <<".", ".">>, <<>>)
        no_slash == Replace(no_dots, <<"/">>, <<>>)
        no_backslash == Replace(no_slash, <<"\\">>, <<>>)
        sanitized == ReSubDrop(no_backslash, FilenameChars)
    IN  IF sanitized = <<>> THEN FileLiteral ELSE sanitized

\* the file names offered to sanitize_filename
NameChars == {"a", ".", "/", "\\", " "}

FilenameCalls ==
    { [op |-> "sanitize_filename", pc |-> "call", filename |-> t,
       result |-> <<>>, again |-> <<>>] : t \in TextsUpTo(NameChars, MaxTextLen) }

\* -------------------------------------------------------- validate_email
\* [a-zA-Z0-9_.+-], [a-zA-Z0-9-] and [a-zA-Z0-9-.]
EmailLocalChars == LowerLetters \cup UpperLetters \cup Digits \cup {"_", ".", "+", "-"}
EmailLabelChars == LowerLetters \cup UpperLetters \cup Digits \cup {"-"}
EmailRestChars == LowerLetters \cup UpperLetters \cup Digits \cup {"-", "."}

\* re.match(r"^[a-zA-Z0-9_.+-]+@[a-zA-Z0-9-]+\.[a-zA-Z0-9-.]+$", email):
\* `$` also matches before one newline at the end of the subject
EmailPatternMatches(email) ==
    LET s == IF email # <<>> /\ email[Len(email)] = "\n"
             THEN SubSeq(email, 1, Len(email) - 1) ELSE email
    IN  \E at \in 2..Len(s) :
            /\ s[at] = "@"
            /\ \A k \in 1..(at - 1) : s[k] \in EmailLocalChars
            /\ \E dot \in (at + 2)..(Len(s) - 1) :
                   /\ s[dot] = "."
                   /\ \A k \in (at + 1)..(dot - 1) : s[k] \in EmailLabelChars
                   /\ \A k \in (dot + 1)..Len(s) : s[k] \in EmailRestChars

\* validate_email(email)
validate_email(email) ==
    IF email.t # "str" THEN FALSE
    ELSE IF ~EmailPatternMatches(email.v) THEN FALSE
    ELSE TRUE

\* longest address passed to validate_email
MaxEmailLen == 6

\* the values offered to validate_email
EmailChars == {"u", ".", "@", " "}

EmailCalls ==
    { [op |-> "validate_email", pc |-> "call", email |-> e, result |-> FALSE] :
        e \in { Str(t) : t \in TextsUpTo(EmailChars, MaxEmailLen) }
              \cup { Null, Num(123) } }

\* ------------------------------------------------- actions of api/utils.py
\* mask_sensitive_data(data, sensitive_keys) returns
MaskData ==
    /\ util.op = "mask_sensitive_data"
    /\ util.pc = "call"
    /\ util' = [util EXCEPT !.pc = "return",
                            !.result = mask_sensitive_data(util.data, util.sensitive_keys)]
    /\ UNCHANGED <<mock_users, mock_documents, uuid_counter, req, hashes, verify>>

\* the caller passes the masked mapping through mask_sensitive_data again
MaskAgain ==
    /\ util.op = "mask_sensitive_data"
    /\ util.pc = "return"
    /\ util' = [util EXCEPT !.pc = "again",
                            !.again = mask_sensitive_data(util.result, util.sensitive_keys)]
    /\ UNCHANGED <<mock_users, mock_documents, uuid_counter, req, hashes, verify>>

\* generate_secure_token returns
GenerateToken ==
    /\ util.op = "generate_secure_token"
    /\ util.pc = "call"
    /\ util' = [util EXCEPT !.pc = "return",
                            !.token = generate_secure_token(util.length, util.stream)]
    /\ UNCHANGED <<mock_users, mock_documents, uuid_counter, req, hashes, verify>>

\* a call of hash_password: the result is kept with the plaintext and the
\* salt that was drawn
HashPassword(password, salt) ==
    /\ util = IdleUtil
    /\ Len(hashes) < MaxHashes
    /\ hashes' = Append(hashes, [password |-> password, salt |-> salt,
                                 hashed |-> hash_password(password, salt)])
    /\ UNCHANGED <<mock_users, mock_documents, uuid_counter, req, util, verify>>

\* a call of verify_password on a stored value
VerifyPassword(password, hashed) ==
    /\ util = IdleUtil
    /\ verify' = [called |-> TRUE, password |-> password, hashed |-> hashed,
                  result |-> verify_password(password, hashed)]
    /\ UNCHANGED <<mock_users, mock_documents, uuid_counter, req, util, hashes>>

\* create_slug returns
CreateSlug ==
    /\ util.op = "create_slug"
    /\ util.pc = "call"
    /\ util' = [util EXCEPT !.pc = "return", !.result = create_slug(util.name)]
    /\ UNCHANGED <<mock_users, mock_documents, uuid_counter, req, hashes, verify>>

\* create_slug is called on its own result
CreateSlugAgain ==
    /\ util.op = "create_slug"
    /\ util.pc = "return"
    /\ util' = [util EXCEPT !.pc = "again", !.again = create_slug(util.result)]
    /\ UNCHANGED <<mock_users, mock_documents, uuid_counter, req, hashes, verify>>

\* sanitize_filename returns
SanitizeFilename ==
    /\ util.op = "sanitize_filename"
    /\ util.pc = "call"
    /\ util' = [util EXCEPT !.pc = "return",
                            !.result = sanitize_filename(util.filename)]
    /\ UNCHANGED <<mock_users, mock_documents, uuid_counter, req, hashes, verify>>

\* sanitize_filename is called on its own result
SanitizeFilenameAgain ==
    /\ util.op = "sanitize_filename"
    /\ util.pc = "return"
    /\ util' = [util EXCEPT !.pc = "again",
                            !.again = sanitize_filename(util.result)]
    /\ UNCHANGED <<mock_users, mock_documents, uuid_counter, req, hashes, verify>>

\* validate_email returns
ValidateEmail ==
    /\ util.op = "validate_email"
    /\ util.pc = "call"
    /\ util' = [util EXCEPT !.pc = "return", !.result = validate_email(util.email)]
    /\ UNCHANGED <<mock_users, mock_documents, uuid_counter, req, hashes, verify>>

\* the values found in the credential store: results of hash_password and
\* values that are not well-formed hashes
StoredValues == { hashes[i].hashed : i \in DOMAIN hashes } \cup MalformedHashes

\* the calls of api/utils.py whose inputs are fixed at the start
UtilCalls ==
    {IdleUtil} \cup MaskCalls \cup TokenCalls \cup SlugCalls \cup FilenameCalls
        \cup EmailCalls

InitUtils ==
    /\ InitMain
    /\ util \in UtilCalls
    /\ hashes = <<>>
    /\ verify = NoVerify

NextUtils ==
    \/ MaskData
    \/ MaskAgain
    \/ GenerateToken
    \/ \E password \in Passwords, salt \in Salts : HashPassword(password, salt)
    \/ \E password \in Passwords, hashed \in StoredValues :
            VerifyPassword(password, hashed)
    \/ CreateSlug
    \/ CreateSlugAgain
    \/ SanitizeFilename
    \/ SanitizeFilenameAgain
    \/ ValidateEmail

SpecUtils == InitUtils /\ [][NextUtils]_vars

\* ------------------------------------------- claims on mask_sensitive_data
Abcde == <<"a","b","c","d","e">>

\* mask_sensitive_data has returned
Masked == util.op = "mask_sensitive_data" /\ util.pc # "call"

\* the markers in force for the call: defaults union the caller's markers
MarkersInForce == default_sensitive_keys \cup util.sensitive_keys

\* at least one marker occurs in the key, letter case respected
Matches(key, markers) == \E k \in markers : Contains(key, k)

\* a value has one of the two shapes a masked value has
IsMaskedForm(value) ==
    /\ value.t = "str"
    /\ \/ value.v = Stars3
       \/ Len(value.v) = 14 /\ SubSeq(value.v, 3, 12) = Stars10

\* P(key, in_value, out_value) holds of every entry of the input mapping
\* reached by recursion (entries under a non-matched key whose value is a
\* mapping), `out` being the result for `in`
RECURSIVE MaskedIffMatched(_, _, _)
MaskedIffMatched(in, out, markers) ==
    /\ DOMAIN out = DOMAIN in
    /\ \A key \in DOMAIN in :
        /\ Matches(key, markers) => IsMaskedForm(out[key])
        /\ ~Matches(key, markers) =>
                IF in[key].t = "dict"
                THEN /\ out[key].t = "dict"
                     /\ MaskedIffMatched(in[key].v, out[key].v, markers)
                ELSE out[key] = in[key]

\* C11: an entry is masked if and only if a marker of (defaults union extra
\* markers) occurs as a case-sensitive substring of its key; the same union
\* applies at every nesting depth; keys matching no marker are never masked
\* (their value is returned as it was, or walked when it is a mapping).
C11_MaskedIffMarker ==
    Masked => MaskedIffMatched(util.data, util.result, MarkersInForce)

C11_Witness ==
    /\ Masked
    /\ util.sensitive_keys = {KeySsn}
    /\ KeyName \in DOMAIN util.data
    /\ util.data[KeyName].t = "dict"
    /\ KeySsn \in DOMAIN util.data[KeyName].v
    /\ util.data[KeyName].v[KeySsn] = Str(Abcde)
    /\ IsMaskedForm(util.result[KeyName].v[KeySsn])

\* C12: the markers are case-insensitive: a key containing a marker in any
\* letter case ('Password', 'API_KEY') has its value masked.
C12_CaseInsensitive ==
    Masked =>
        \A key \in DOMAIN util.data :
            Matches(Lower(key), MarkersInForce) => IsMaskedForm(util.result[key])

\* C12 (amended): the markers are case-sensitive: a key that contains a
\* marker only in another letter case ('Password', 'API_KEY') is not masked;
\* its value is returned unchanged, or walked when it is a mapping.
C12_CaseSensitive ==
    Masked =>
        \A key \in DOMAIN util.data :
            (Matches(Lower(key), MarkersInForce) /\ ~Matches(key, MarkersInForce)) =>
                /\ util.data[key].t # "dict" => util.result[key] = util.data[key]
                /\ util.data[key].t = "dict" => util.result[key].t = "dict"

C12_Witness ==
    /\ Masked
    /\ DOMAIN util.data = {KeyPasswordCap, KeyApiKeyCap}
    /\ util.data[KeyPasswordCap] = Str(Abcde)
    /\ util.result[KeyPasswordCap] = Str(Abcde)

\* the masked form the claim prescribes for a value
PrescribedMask(value) ==
    IF value.t = "str" /\ Len(value.v) > 4
    THEN Str(<<value.v[1], value.v[2]>> \o Stars10
             \o <<value.v[Len(value.v) - 1], value.v[Len(value.v)]>>)
    ELSE Str(Stars3)

RECURSIVE MatchedAreReplaced(_, _, _)
MatchedAreReplaced(in, out, markers) ==
    \A key \in DOMAIN in :
        /\ key \in DOMAIN out
        /\ Matches(key, markers) =>
                /\ out[key] = PrescribedMask(in[key])
                /\ Len(out[key].v) = (IF in[key].t = "str" /\ Len(in[key].v) > 4
                                      THEN 14 ELSE 3)
        /\ (~Matches(key, markers) /\ in[key].t = "dict" /\ out[key].t = "dict") =>
                MatchedAreReplaced(in[key].v, out[key].v, markers)

\* C13: the value of a matched key is replaced without recursing into it: a
\* string longer than 4 becomes first 2 characters + 10 '*' + last 2
\* characters (length 14), every other value becomes '***'.
C13_MaskRule ==
    Masked => MatchedAreReplaced(util.data, util.result, MarkersInForce)

C13_Witness ==
    /\ Masked
    /\ DOMAIN util.data = {KeyPassword, KeyApiKey}
    /\ util.data[KeyPassword] = Str(Abcde)
    /\ util.result[KeyPassword] = Str(<<"a","b">> \o Stars10 \o <<"d","e">>)
    /\ util.data[KeyApiKey].t = "dict"
    /\ util.result[KeyApiKey] = Str(Stars3)

RECURSIVE NonMatchedKept(_, _, _)
NonMatchedKept(in, out, markers) ==
    /\ DOMAIN out = DOMAIN in
    /\ \A key \in DOMAIN in :
        ~Matches(key, markers) =>
            IF in[key].t = "dict"
            THEN /\ out[key].t = "dict"
                 /\ NonMatchedKept(in[key].v, out[key].v, markers)
            ELSE out[key] = in[key]

\* C14: under a non-matched key a mapping is redacted recursively, a
\* sequence or scalar is passed through unchanged (a sensitive key inside a
\* list element stays unmasked); the output has the key set of the input at
\* every level.
C14_NonMatchedPassThrough ==
    Masked => NonMatchedKept(util.data, util.result, MarkersInForce)

C14_Witness ==
    /\ Masked
    /\ KeyName \in DOMAIN util.data
    /\ util.data[KeyName].t = "list"
    /\ util.result[KeyName].v[2].v[KeyPassword] =
            Str(<<"h","u","n","t","e","r","2","2">>)

\* C15: redaction is idempotent: masking the masked mapping again with the
\* same markers returns the masked mapping.
C15_Idempotent ==
    (util.op = "mask_sensitive_data" /\ util.pc = "again") =>
        util.again = util.result

C15_Witness ==
    /\ util.op = "mask_sensitive_data"
    /\ util.pc = "again"
    /\ DOMAIN util.data = {KeyPassword, KeyName}
    /\ util.data[KeyPassword] = Str(Abcde)
    /\ util.data[KeyName].t = "dict"
    /\ util.again[KeyPassword] = Str(<<"a","b">> \o Stars10 \o <<"d","e">>)

\* ------------------------------------------------------------- passwords
\* the verify_password call was made on the hash that call i of
\* hash_password returned
VerifiedHashOf(i) == verify.called /\ verify.hashed = hashes[i].hashed

\* C16: for every plaintext p and every hash that a call hash_password(p)
\* produced, verify_password(p, that hash) is true.
C16_VerifyOwnHash ==
    \A i \in DOMAIN hashes :
        (VerifiedHashOf(i) /\ verify.password = hashes[i].password)
            => verify.result = "True"

\* a password longer than what bcrypt reads was hashed, then verified
C16_Witness ==
    \E i \in DOMAIN hashes :
        /\ VerifiedHashOf(i)
        /\ verify.password = hashes[i].password
        /\ Len(verify.password) > 72
        /\ hashes[i].salt = "saltB"
        /\ verify.result = "True"

\* C17: for all plaintexts p1 # p2, of any length, including pairs that differ
\* only after a long common prefix, verify_password(p1, hash_password(p2)) is
\* false.
C17_OtherPasswordRejected ==
    \A i \in DOMAIN hashes :
        (VerifiedHashOf(i) /\ verify.password # hashes[i].password)
            => verify.result = "False"

\* C18: verify_password(p, h) returns false, and never raises, for every
\* stored value h that is not a well-formed hash (empty string, arbitrary
\* text, truncated hash).
C18_MalformedIsFalse ==
    (verify.called /\ verify.hashed \in MalformedHashes)
        => verify.result = "False"

\* two separate calls of hash_password on the same plaintext
SamePlaintext(i, j) == i # j /\ hashes[i].password = hashes[j].password

Alphanumeric ==
    { "A", "B", "C", "D", "E", "F", "G", "H", "I", "J", "K", "L", "M",
      "N", "O", "P", "Q", "R", "S", "T", "U", "V", "W", "X", "Y", "Z",
      "a", "b", "c", "d", "e", "f", "g", "h", "i", "j", "k", "l", "m",
      "n", "o", "p", "q", "r", "s", "t", "u", "v", "w", "x", "y", "z",
      "0", "1", "2", "3", "4", "5", "6", "7", "8", "9" }

\* C20: for every length n in 0..256, generate_secure_token(n) returns a
\* string of exactly n characters, each one of the 62 symbols [A-Za-z0-9];
\* n = 0 returns the empty string and the call without a length returns 32
\* characters.
C20_TokenShape ==
    (util.op = "generate_secure_token" /\ util.pc = "return") =>
        /\ Cardinality(Alphanumeric) = 62
        /\ util.length_given => Len(util.token) = util.length
        /\ \A i \in 1..Len(util.token) : util.token[i] \in Alphanumeric
        /\ (util.length_given /\ util.length = 0) => util.token = <<>>
        /\ ~util.length_given => Len(util.token) = 32

\* the call without a length returned, with more than one symbol in use
C20_Witness ==
    /\ util.op = "generate_secure_token"
    /\ util.pc = "return"
    /\ ~util.length_given
    /\ Len(util.token) = 32
    /\ util.token[1] # util.token[2]

\* ----------------------------------------------------------------- slugs
\* [a-z0-9]
SlugAlnum == LowerLetters \cup Digits

\* create_slug has returned
Slugged == util.op = "create_slug" /\ util.pc # "call"

\* the characters of s that are in [a-z0-9], in order
AlnumOnly(s) == SelectSeq(s, LAMBDA c : c \in SlugAlnum)

\* the position in s of its k-th character in [a-z0-9]
NthAlnum(s, k) ==
    CHOOSE i \in 1..Len(s) :
        /\ s[i] \in SlugAlnum
        /\ Cardinality({ j \in 1..i : s[j] \in SlugAlnum }) = k

\* empty, or [a-z0-9]+(-[a-z0-9]+)*
SlugShaped(r) ==
    \/ r = <<>>
    \/ /\ \A i \in 1..Len(r) : r[i] \in SlugAlnum \cup {"-"}
       /\ r[1] # "-"
       /\ r[Len(r)] # "-"
       /\ \A i \in 1..(Len(r) - 1) : ~(r[i] = "-" /\ r[i + 1] = "-")

\* r keeps the [a-z0-9] characters of s in order, and two neighbours among
\* them are separated in r exactly when they are separated in s
RunsCollapsed(s, r) ==
    /\ AlnumOnly(r) = AlnumOnly(s)
    /\ \A k \in 1..(Len(AlnumOnly(s)) - 1) :
            (NthAlnum(r, k + 1) > NthAlnum(r, k) + 1)
                <=> (NthAlnum(s, k + 1) > NthAlnum(s, k) + 1)

\* C21: create_slug returns the text lower-cased with every maximal run of
\* characters outside [a-z0-9] replaced by a single hyphen and the hyphens at
\* both ends removed; the result is empty exactly when the lower-cased text
\* has no character of [a-z0-9], otherwise it matches [a-z0-9]+(-[a-z0-9]+)*;
\* create_slug(create_slug(t)) = create_slug(t).
C21_SlugShape ==
    Slugged =>
        /\ SlugShaped(util.result)
        /\ RunsCollapsed(LowerText(util.name), util.result)
        /\ util.result = <<>> <=> AlnumOnly(LowerText(util.name)) = <<>>
        /\ util.pc = "again" => util.again = util.result

C21_Witness ==
    /\ Slugged
    /\ util.pc = "again"
    /\ util.name = <<"B", " ", "-", "a">>
    /\ util.result = <<"b", "-", "a">>
    /\ util.again = <<"b", "-", "a">>

\* ------------------------------------------------------------ file names
\* sanitize_filename has returned
Sanitized == util.op = "sanitize_filename" /\ util.pc # "call"

TwoDots == <<".", ".">>

\* what is left of x after every "..", then every "/", then every "\" is
\* removed and the characters outside [A-Za-z0-9._-] are dropped
Survivors(x) ==
    SelectSeq(Replace(Replace(Replace(x, TwoDots, <<>>), <<"/">>, <<>>),
                      <<"\\">>, <<>>),
              LAMBDA c : c \in FilenameChars)

\* C22: sanitize_filename returns a non-empty string made only of characters
\* of [A-Za-z0-9._-], hence without '/' and '\'; it is the input with every
\* '..', then every '/', then every '\' removed in one pass each and every
\* other disallowed character dropped, the literal 'file' being substituted
\* exactly when nothing survives.
C22_SanitizedShape ==
    Sanitized =>
        /\ util.result # <<>>
        /\ \A i \in 1..Len(util.result) :
                /\ util.result[i] \in FilenameChars
                /\ util.result[i] \notin {"/", "\\"}
        /\ Survivors(util.filename) # <<>> => util.result = Survivors(util.filename)
        /\ Survivors(util.filename) = <<>> => util.result = <<"f","i","l","e">>

C22_Witness ==
    /\ Sanitized
    /\ util.filename = <<".", ".", "/", "a">>
    /\ util.result = <<"a">>

\* C28: the result of sanitize_filename contains no occurrence of the
\* two-character sequence '..', also when the input interleaves dots with
\* '/', '\' or other dropped characters.
C28_NoDotDot ==
    Sanitized => ~Contains(util.result, TwoDots)

\* a name that is already safe: not empty, only characters of
\* [A-Za-z0-9._-], no '..'
SafeName(x) ==
    /\ x # <<>>
    /\ \A i \in 1..Len(x) : x[i] \in FilenameChars
    /\ ~Contains(x, TwoDots)

\* C29: sanitize_filename leaves already-safe names unchanged and is
\* idempotent: sanitize_filename(sanitize_filename(x)) = sanitize_filename(x).
C29_SanitizeIdempotent ==
    Sanitized =>
        /\ SafeName(util.filename) => util.result = util.filename
        /\ util.pc = "again" => util.again = util.result

\* ------------------------------------------------------------ addresses
\* C23: validate_email returns False for every address that contains two
\* consecutive dots, in the local part or in the domain.
C23_DoubleDotInvalid ==
    (/\ util.op = "validate_email"
     /\ util.pc = "return"
     /\ util.email.t = "str"
     /\ Contains(util.email.v, TwoDots)) => util.result = FALSE

\* ------------------------------------------------- masked and original
\* a value that is its own mask
SelfMasked(value) ==
    /\ value.t = "str"
    /\ \/ value.v = Stars3
       \/ Len(value.v) = 14 /\ \A i \in 3..12 : value.v[i] = "*"

\* P holds of every entry with a matched key reached by recursion
RECURSIVE MaskedDiffers(_, _, _)
MaskedDiffers(in, out, markers) ==
    \A key \in DOMAIN in :
        /\ key \in DOMAIN out
        /\ Matches(key, markers) => out[key] # in[key]
        /\ (~Matches(key, markers) /\ in[key].t = "dict" /\ out[key].t = "dict") =>
                MaskedDiffers(in[key].v, out[key].v, markers)

RECURSIVE MaskedDiffersUnlessSelfMasked(_, _, _)
MaskedDiffersUnlessSelfMasked(in, out, markers) ==
    \A key \in DOMAIN in :
        /\ key \in DOMAIN out
        /\ Matches(key, markers) => (out[key] = in[key] <=> SelfMasked(in[key]))
        /\ (~Matches(key, markers) /\ in[key].t = "dict" /\ out[key].t = "dict") =>
                MaskedDiffersUnlessSelfMasked(in[key].v, out[key].v, markers)

\* C24 as stated: for every mapping reached by recursion and every entry
\* whose key contains a marker, the masked value differs from the original
\* value, whatever the original value is.
C24_MaskedDiffers ==
    Masked => MaskedDiffers(util.data, util.result, MarkersInForce)

\* C24 amended: the masked value differs from the original value except when
\* the original is already its own mask: the string '***', or a string of 14
\* characters whose 3rd to 12th characters are '*'.
C24_DiffersUnlessSelfMasked ==
    Masked => MaskedDiffersUnlessSelfMasked(util.data, util.result, MarkersInForce)

\* a secret that is its own mask, below the top level
C24_Witness ==
    /\ Masked
    /\ DOMAIN util.data = {KeyName}
    /\ util.data[KeyName].t = "dict"
    /\ DOMAIN util.data[KeyName].v = {KeyPassword}
    /\ util.data[KeyName].v[KeyPassword] = Str(Stars3)
    /\ util.result[KeyName].v[KeyPassword] = Str(Stars3)

\* -------------------------------------------------------- error rendering
\* the detail of the HTTPException the gate raises for a pair of headers
\* whose outcome is 400, 401 or 403
GateDetail(authorization, x_organization_id, users) ==
    IF ~StartsWith(authorization.value, BearerPrefix)
    THEN "Invalid authorization header"
    ELSE IF GateOutcome(authorization, x_organization_id, users) = 401
    THEN "Invalid token"
    ELSE IF GateOutcome(authorization, x_organization_id, users) = 400
    THEN "X-Organization-ID header is required"
    ELSE "User is not a member of the specified organization"

\* C25: every HTTPException raised by the gate is rendered with the raised
\* status code and a body having exactly the fields 'error' and 'message',
\* message being the failure detail; 'error' is 'Forbidden' exactly when the
\* status is 403 and 'Bad Request' for every other status, the 401
\* credential failures included.
C25_ErrorBody ==
    \A r \in Reqs :
        LET outcome == GateOutcome(req[r].authorization, req[r].x_organization_id,
                                   InitUsers)
        IN  (GateDone(r) /\ outcome \in {400, 401, 403}) =>
                req[r].response =
                    [NoResponse EXCEPT
                        !.status_code = outcome,
                        !.error = IF outcome = 403 THEN "Forbidden" ELSE "Bad Request",
                        !.message = GateDetail(req[r].authorization,
                                               req[r].x_organization_id, InitUsers)]

C25_Witness ==
    \E r \in Reqs :
        /\ req[r].pc = "Responded"
        /\ req[r].authorization = Auth(BearerPrefix \o InvalidToken)
        /\ req[r].response.status_code = 401
        /\ req[r].response.error = "Bad Request"
        /\ req[r].response.message = "Invalid token"

\* -------------------------------------------------------------- dashboard
\* C26: after any sequence of create_document requests, get_dashboard
\* returns in recent_documents the last min(5, n) documents of the caller's
\* organization, n being the number stored; recent_documents never has more
\* than 5 entries.
C26_LastFive ==
    \A r \in Reqs :
        (/\ req[r].pc = "Responded"
         /\ req[r].endpoint = "get_dashboard"
         /\ HandlerRan(r)) =>
            LET docs == IF req[r].organization_id \in DOMAIN mock_documents
                        THEN mock_documents[req[r].organization_id] ELSE <<>>
                n == Len(docs)
                k == IF n < 5 THEN n ELSE 5
            IN  /\ Len(req[r].response.documents) <= 5
                /\ req[r].response.documents = SubSeq(docs, n - k + 1, n)

\* ------------------------------------------------------ concurrent creates
\* the endpoint body of create_document runs for request r
CreateStep(r) ==
    /\ req[r].pc = "Authorized"
    /\ req[r].endpoint = "create_document"
    /\ req'[r].pc = "Responded"

\* the documents stored for organization o
StoredFor(o) == IF o \in DOMAIN mock_documents THEN mock_documents[o] ELSE <<>>

\* the identifiers of all stored documents
StoredIds ==
    UNION { { mock_documents[o][i].id : i \in DOMAIN mock_documents[o] } :
            o \in DOMAIN mock_documents }

\* the number of stored documents
RECURSIVE TotalStored(_)
TotalStored(orgs) ==
    IF orgs = {} THEN 0
    ELSE LET o == CHOOSE x \in orgs : TRUE
         IN  Len(mock_documents[o]) + TotalStored(orgs \ {o})

\* C27: under any interleaving of concurrent create_document requests, each
\* authorized request appends exactly one new document to the end of
\* mock_documents[o], o being the caller's organization, with
\* organization_id = o and the submitted title; no append is lost or
\* duplicated; the lists of the other organizations are unchanged; every
\* document stored under key o has organization_id = o; a failed create
\* changes nothing.
C27_ConcurrentCreates ==
    /\ [][\A r \in Reqs : CreateStep(r) =>
            LET o == req[r].organization_id
                after == mock_documents'[o]
            IN  /\ o = req[r].current_user.organization_id
                /\ DOMAIN mock_documents' = DOMAIN mock_documents \cup {o}
                /\ Len(after) = Len(StoredFor(o)) + 1
                /\ SubSeq(after, 1, Len(after) - 1) = StoredFor(o)
                /\ after[Len(after)].organization_id = o
                /\ after[Len(after)].title = req[r].title
                /\ after[Len(after)].id \notin StoredIds
                /\ \A p \in DOMAIN mock_documents \ {o} :
                        mock_documents'[p] = mock_documents[p]]_vars
    /\ [][(\A r \in Reqs : ~CreateStep(r)) => mock_documents' = mock_documents]_vars
    /\ [](\A o \in DOMAIN mock_documents : \A i \in DOMAIN mock_documents[o] :
                mock_documents[o][i].organization_id = o)
    /\ [](TotalStored(DOMAIN mock_documents) = 3 + uuid_counter)

\* one create of organization org-1 has been answered while another one,
\* already authorized, waits for its endpoint body
C27_Witness ==
    /\ req[1].pc = "Authorized"
    /\ req[1].endpoint = "create_document"
    /\ req[1].organization_id = "org-1"
    /\ req[2].pc = "Responded"
    /\ req[2].endpoint = "create_document"
    /\ req[2].organization_id = "org-1"
    /\ req[2].response.status_code = 200
    /\ Len(mock_documents["org-1"]) = 3

\* ------------------------------------------------------------ bearer token
\* C30: a header authenticates as user u only if it is exactly 'Bearer '
\* followed by u's token (the value looked up is the header without its
\* single leading prefix); no other header value, such as one repeating
\* 'Bearer ' or embedding it inside the value, resolves to a user.
C30_ExactBearerToken ==
    \A r \in Reqs :
        req[r].current_user # NoUser =>
            \E token \in DOMAIN user_mapping :
                /\ req[r].authorization.value = BearerPrefix \o token
                /\ user_mapping[token] = req[r].current_user.id

====
